---- MODULE Spec2Model ----
(***************************************************************************)
(* Model of src/cache.go: a generic loading cache with one mutex per key   *)
(* (lockMap), a mutex guarding the lock map (lockMapLock), a value map     *)
(* (dataMap) and a fixed time-to-live (cacheDuration).                     *)
(*                                                                         *)
(* Every call of Get or Put is one element of Calls; a call runs through   *)
(* the statements of its method one step at a time, so that calls          *)
(* interleave the way goroutines do.  The clock is an integer that only    *)
(* moves forward (time.Now() carries a monotonic reading).                 *)
(*                                                                         *)
(* A Go map is not safe for concurrent use.  dataMap is one map shared by  *)
(* all keys, so a map access has an extent here: a call is in the map     *)
(* while its pc is "reading" or "writing".  When two accesses overlap and  *)
(* one of them writes, the runtime either aborts the process ("fatal       *)
(* error: concurrent map writes", action Fatal) or the accesses complete.  *)
(*                                                                         *)
(* Statements that touch nothing another call can see are joined to the    *)
(* step before them: the lookup in lockMap is made with the step that      *)
(* locks lockMapLock, the map read begins with the step that locks keyLock,*)
(* the entry is built (time.Now() read) with the step before the map       *)
(* write, and the deferred Unlock runs with the step that returns.         *)
(***************************************************************************)
EXTENDS Integers, Sequences, FiniteSets, TLC

\* ------------------------------------------------------------------ bounds
NumCalls == 2
NumKeys == 2
MaxClock == 2
MaxTTL == 1

Calls == 1..NumCalls
Keys == 1..NumKeys
NoValue == <<"none", 0, 0>>
NoCall == 0
NoLock == 0

VARIABLES
  clock,          \* time.Now()
  cacheDuration,  \* loadingCache.cacheDuration
  dataMap,        \* loadingCache.dataMap: key -> [Value, Expiration]
  lockMap,        \* loadingCache.lockMap: key -> mutex (index into mutexes)
  lockMapLock,    \* loadingCache.lockMapLock: the call holding it, or NoCall
  mutexes,        \* the sync.Mutex objects made by getKeyLockFromMap: holder or NoCall
  crashed,        \* the runtime has aborted the process
  pc,             \* where each call is
  op,             \* "Get" or "Put"
  key,            \* the call's key argument
  caller,         \* the call whose loader made this call, NoCall for any other caller
  value,          \* Put: the value argument; Get: newValue
  keyLock,        \* the local keyLock
  newExp,         \* the Expiration of the entry the call builds (-1: none built)
  ret,            \* what Get returned
  loadCount,      \* history: number of loader invocations per key
  loadIdx,        \* history: which invocation of the loader the call made (0: none)
  activeAtStart,  \* history: the calls in progress when the call started
  coldAtStart,    \* history: the key was absent or expired when the call started
  stampedAt,      \* history: the clock the call read to build its entry (-1: none built)
  lastOn          \* history: per key, the last call that wrote the entry or panicked (or NoCall)

locals == <<pc, op, key, caller, value, keyLock, newExp, ret>>
history == <<loadCount, loadIdx, activeAtStart, coldAtStart, stampedAt, lastOn>>
shared == <<clock, cacheDuration, dataMap, lockMap, lockMapLock, mutexes, crashed>>
vars == <<shared, locals, history>>

\* ------------------------------------------------------------- pure parts
\* The loader is supplied by the caller; its n-th result for key k.  Every
\* invocation gives a value of its own, so that values tell invocations apart.
loadingFunc(k, n) == <<"load", k, n>>

\* The value call c passes to Put: every Put passes a value of its own.
PutValue(c) == <<"put", c, 0>>

\* CacheValue.Expired: this.Expiration.Before(time.Now())
\* (first two faulty variants: After for Before, and "at or after")
ExpiredAfter(e, now) == e.Expiration > now
ExpiredAtOrAfter(e, now) == e.Expiration <= now
Expired(e, now) == e.Expiration < now

\* &CacheValue[V]{Value: v, Expiration: time.Now().Add(l.cacheDuration)}
\* (first a faulty variant: the duration counted from the time the cache
\* was made)
NewCacheValueStale(v, now) == [Value |-> v, Expiration |-> 0 + cacheDuration]
NewCacheValue(v, now) == [Value |-> v, Expiration |-> now + cacheDuration]

\* the condition of Get's if: !exists || (exists && value.Expired())
MustLoad(m, k, now) == IF k \in DOMAIN m THEN Expired(m[k], now) ELSE TRUE

\* m[k] = e on a Go map
\* (first two faulty variants: one that loses the other keys, one that
\* ignores the key and stores e under every key)
MapPutDropOthers(m, k, e) == [x \in {k} |-> e]
MapPutAllKeys(m, k, e) == [x \in Keys |-> e]
MapPut(m, k, e) == [x \in DOMAIN m \cup {k} |-> IF x = k THEN e ELSE m[x]]

\* sync.Mutex.Lock can proceed
\* (first a faulty variant: a lock that never blocks)
MutexFreeAlways(l) == TRUE
MutexFree(l) == mutexes[l] = NoCall

\* lockMapLock.Lock() can proceed
\* (first a faulty variant: a guard that never blocks)
RegistryFreeAlways == TRUE
RegistryFree == lockMapLock = NoCall

\* lock, exists := this.lockMap[key]: the mutex found, NoLock if none
LookupKeyLock(k) == IF k \in DOMAIN lockMap THEN lockMap[k] ELSE NoLock

\* the mutex getKeyLockFromMap returns to call c: the one its lookup found,
\* or a new one
\* (first two faulty variants: a new mutex on every call, one mutex for all keys)
KeyLockAlwaysNew(c) == Len(mutexes) + 1
KeyLockShared(c) == IF DOMAIN lockMap = {} THEN Len(mutexes) + 1
                    ELSE lockMap[CHOOSE x \in DOMAIN lockMap : TRUE]
KeyLockFor(c) == IF keyLock[c] # NoLock THEN keyLock[c] ELSE Len(mutexes) + 1

Active(c) == pc[c] \notin {"idle", "done", "panicked"}
InMap(c) == pc[c] \in {"reading", "writing"}
Race == \E c1, c2 \in Calls :
          c1 # c2 /\ InMap(c1) /\ InMap(c2) /\ "writing" \in {pc[c1], pc[c2]}

\* -------------------------------------------------------------------- Init
\* NewLoadingCache(loadingFunc, cacheDuration)
Init ==
  /\ clock = 0
  /\ cacheDuration \in 0..MaxTTL
  /\ dataMap = <<>>
  /\ lockMap = <<>>
  /\ lockMapLock = NoCall
  /\ mutexes = <<>>
  /\ crashed = FALSE
  /\ pc = [c \in Calls |-> "idle"]
  /\ op = [c \in Calls |-> "Get"]
  /\ key = [c \in Calls |-> 1]
  /\ caller = [c \in Calls |-> NoCall]
  /\ value = [c \in Calls |-> NoValue]
  /\ keyLock = [c \in Calls |-> NoLock]
  /\ newExp = [c \in Calls |-> -1]
  /\ ret = [c \in Calls |-> NoValue]
  /\ loadCount = [k \in Keys |-> 0]
  /\ loadIdx = [c \in Calls |-> 0]
  /\ activeAtStart = [c \in Calls |-> {}]
  /\ coldAtStart = [c \in Calls |-> FALSE]
  /\ stampedAt = [c \in Calls |-> -1]
  /\ lastOn = [k \in Keys |-> NoCall]

\* ----------------------------------------------------------------- actions
\* Calls are numbered in the order they start.
CanStart(c) == ~crashed /\ pc[c] = "idle" /\ (IF c = 1 THEN TRUE ELSE pc[c - 1] # "idle")

Enter(c, o, k, v) ==
  /\ CanStart(c)
  /\ pc' = [pc EXCEPT ![c] = "lockMapLock"]
  /\ op' = [op EXCEPT ![c] = o]
  /\ key' = [key EXCEPT ![c] = k]
  /\ value' = [value EXCEPT ![c] = v]
  /\ activeAtStart' = [activeAtStart EXCEPT ![c] = {d \in Calls : Active(d)}]
  /\ coldAtStart' = [coldAtStart EXCEPT ![c] = MustLoad(dataMap, k, clock)]
  /\ UNCHANGED <<shared, keyLock, newExp, ret, loadCount, loadIdx, stampedAt, lastOn>>

\* Keys are only compared for equality, so they are numbered in the order
\* the callers first use them.
NextKeys == {k \in Keys : IF k = 1 THEN TRUE
                                   ELSE \E d \in Calls : pc[d] # "idle" /\ key[d] = k - 1}

\* a caller calls Get(key)
Get(c) == \E k \in NextKeys : Enter(c, "Get", k, NoValue) /\ UNCHANGED caller

\* a caller calls Put(key, value)
Put(c) == \E k \in NextKeys : Enter(c, "Put", k, PutValue(c)) /\ UNCHANGED caller

\* the loader call c started is waiting for no call of its own
LoaderRunning(c) == pc[c] = "loading" /\ \A d \in Calls : caller[d] = c => ~Active(d)

\* a loader that calls back into the cache: the loader call c started calls
\* Get(key)
LoaderGet(d) ==
  \E c \in Calls, k \in NextKeys :
    /\ LoaderRunning(c)
    /\ Enter(d, "Get", k, NoValue)
    /\ caller' = [caller EXCEPT ![d] = c]

\* ... or Put(key, value)
LoaderPut(d) ==
  \E c \in Calls, k \in NextKeys :
    /\ LoaderRunning(c)
    /\ Enter(d, "Put", k, PutValue(d))
    /\ caller' = [caller EXCEPT ![d] = c]

\* getKeyLockFromMap: this.lockMapLock.Lock(), and the key is looked up in
\* lockMap
LockMapLock(c) ==
  /\ ~crashed
  /\ pc[c] = "lockMapLock"
  /\ RegistryFree
  /\ lockMapLock' = c
  /\ keyLock' = [keyLock EXCEPT ![c] = LookupKeyLock(key[c])]
  /\ pc' = [pc EXCEPT ![c] = "lockMap"]
  /\ UNCHANGED <<clock, cacheDuration, dataMap, lockMap, mutexes, crashed,
                 op, key, caller, value, newExp, ret, history>>

\* (a faulty variant of GetKeyLockFromMap: no deferred Unlock)
GetKeyLockFromMapKeepGuard(c) ==
  /\ ~crashed
  /\ pc[c] = "lockMap"
  /\ LET l == KeyLockFor(c) IN
       /\ keyLock' = [keyLock EXCEPT ![c] = l]
       /\ lockMap' = MapPut(lockMap, key[c], l)
       /\ mutexes' = IF l > Len(mutexes) THEN Append(mutexes, NoCall) ELSE mutexes
  /\ pc' = [pc EXCEPT ![c] = "keyLock"]
  /\ UNCHANGED <<clock, cacheDuration, dataMap, lockMapLock, crashed,
                 op, key, caller, value, newExp, ret, history>>

\* getKeyLockFromMap: the mutex found is returned, or, none found, a new
\* mutex is made, put in lockMap (for a mutex found the assignment below
\* changes nothing) and returned; the deferred lockMapLock.Unlock() runs
GetKeyLockFromMap(c) ==
  /\ ~crashed
  /\ pc[c] = "lockMap"
  /\ LET l == KeyLockFor(c) IN
       /\ keyLock' = [keyLock EXCEPT ![c] = l]
       /\ lockMap' = MapPut(lockMap, key[c], l)
       /\ mutexes' = IF l > Len(mutexes) THEN Append(mutexes, NoCall) ELSE mutexes
  /\ lockMapLock' = NoCall
  /\ pc' = [pc EXCEPT ![c] = "keyLock"]
  /\ UNCHANGED <<clock, cacheDuration, dataMap, crashed,
                 op, key, caller, value, newExp, ret, history>>

\* keyLock.Lock(); then Get begins value, exists := l.dataMap[key], and Put
\* builds its entry and begins l.dataMap[key] = ...
KeyLockLock(c) ==
  /\ ~crashed
  /\ pc[c] = "keyLock"
  /\ MutexFree(keyLock[c])
  /\ mutexes' = [mutexes EXCEPT ![keyLock[c]] = c]
  /\ IF op[c] = "Get"
       THEN /\ pc' = [pc EXCEPT ![c] = "reading"]
            /\ UNCHANGED <<newExp, stampedAt>>
       ELSE /\ pc' = [pc EXCEPT ![c] = "writing"]
            /\ newExp' = [newExp EXCEPT ![c] = NewCacheValue(value[c], clock).Expiration]
            /\ stampedAt' = [stampedAt EXCEPT ![c] = clock]
  /\ UNCHANGED <<clock, cacheDuration, dataMap, lockMap, lockMapLock, crashed,
                 op, key, caller, value, keyLock, ret,
                 loadCount, loadIdx, activeAtStart, coldAtStart, lastOn>>

\* Get: the map read ends and !exists || value.Expired() holds: the loader
\* is called
Miss(c) ==
  /\ ~crashed
  /\ pc[c] = "reading"
  /\ MustLoad(dataMap, key[c], clock)
  /\ pc' = [pc EXCEPT ![c] = "loading"]
  /\ loadCount' = [loadCount EXCEPT ![key[c]] = @ + 1]
  /\ loadIdx' = [loadIdx EXCEPT ![c] = loadCount[key[c]] + 1]
  /\ UNCHANGED <<shared, op, key, caller, value, keyLock, newExp, ret,
                 activeAtStart, coldAtStart, stampedAt, lastOn>>

\* (a faulty variant of Hit: a hit renews the entry's Expiration)
HitRefreshTTL(c) ==
  /\ ~crashed
  /\ pc[c] = "reading"
  /\ ~MustLoad(dataMap, key[c], clock)
  /\ ret' = [ret EXCEPT ![c] = dataMap[key[c]].Value]
  /\ dataMap' = MapPut(dataMap, key[c], NewCacheValue(dataMap[key[c]].Value, clock))
  /\ mutexes' = [mutexes EXCEPT ![keyLock[c]] = NoCall]
  /\ pc' = [pc EXCEPT ![c] = "done"]
  /\ UNCHANGED <<clock, cacheDuration, lockMap, lockMapLock, crashed,
                 op, key, caller, value, keyLock, newExp, history>>

\* Get: the map read ends and the entry is there and not expired: return
\* value.Value; the deferred keyLock.Unlock() runs
Hit(c) ==
  /\ ~crashed
  /\ pc[c] = "reading"
  /\ ~MustLoad(dataMap, key[c], clock)
  /\ ret' = [ret EXCEPT ![c] = dataMap[key[c]].Value]
  /\ mutexes' = [mutexes EXCEPT ![keyLock[c]] = NoCall]
  /\ pc' = [pc EXCEPT ![c] = "done"]
  /\ UNCHANGED <<clock, cacheDuration, dataMap, lockMap, lockMapLock, crashed,
                 op, key, caller, value, keyLock, newExp, history>>

\* Get: newValue := l.loadingFunc(key) returns; the entry is built and
\* l.dataMap[key] = ... begins
LoaderReturn(c) ==
  /\ ~crashed
  /\ LoaderRunning(c)
  /\ LET newValue == loadingFunc(key[c], loadIdx[c]) IN
       /\ value' = [value EXCEPT ![c] = newValue]
       /\ newExp' = [newExp EXCEPT ![c] = NewCacheValue(newValue, clock).Expiration]
  /\ stampedAt' = [stampedAt EXCEPT ![c] = clock]
  /\ pc' = [pc EXCEPT ![c] = "writing"]
  /\ UNCHANGED <<shared, op, key, caller, keyLock, ret,
                 loadCount, loadIdx, activeAtStart, coldAtStart, lastOn>>

\* (a faulty variant of LoaderPanic: no deferred Unlock)
LoaderPanicKeepLock(c) ==
  /\ ~crashed
  /\ LoaderRunning(c)
  /\ pc' = [pc EXCEPT ![c] = "panicked"]
  /\ lastOn' = [lastOn EXCEPT ![key[c]] = c]
  /\ UNCHANGED <<shared, op, key, caller, value, keyLock, newExp, ret,
                 loadCount, loadIdx, activeAtStart, coldAtStart, stampedAt>>

\* Get: l.loadingFunc(key) panics; the deferred keyLock.Unlock() runs and the
\* panic goes on to the caller
LoaderPanic(c) ==
  /\ ~crashed
  /\ LoaderRunning(c)
  /\ mutexes' = [mutexes EXCEPT ![keyLock[c]] = NoCall]
  /\ pc' = [pc EXCEPT ![c] = "panicked"]
  /\ lastOn' = [lastOn EXCEPT ![key[c]] = c]
  /\ UNCHANGED <<clock, cacheDuration, dataMap, lockMap, lockMapLock, crashed,
                 op, key, caller, value, keyLock, newExp, ret,
                 loadCount, loadIdx, activeAtStart, coldAtStart, stampedAt>>

\* Get and Put: l.dataMap[key] = ... ends; Get returns newValue; the deferred
\* keyLock.Unlock() runs
MapWriteEnd(c) ==
  /\ ~crashed
  /\ pc[c] = "writing"
  /\ dataMap' = MapPut(dataMap, key[c], [Value |-> value[c], Expiration |-> newExp[c]])
  /\ lastOn' = [lastOn EXCEPT ![key[c]] = c]
  /\ ret' = [ret EXCEPT ![c] = IF op[c] = "Get" THEN value[c] ELSE NoValue]
  /\ mutexes' = [mutexes EXCEPT ![keyLock[c]] = NoCall]
  /\ pc' = [pc EXCEPT ![c] = "done"]
  /\ UNCHANGED <<clock, cacheDuration, lockMap, lockMapLock, crashed,
                 op, key, caller, value, keyLock, newExp,
                 loadCount, loadIdx, activeAtStart, coldAtStart, stampedAt>>

\* two accesses of dataMap overlap, one of them a write: the runtime may abort
Fatal ==
  /\ ~crashed
  /\ Race
  /\ crashed' = TRUE
  /\ UNCHANGED <<clock, cacheDuration, dataMap, lockMap, lockMapLock, mutexes,
                 locals, history>>

\* time passes
Tick ==
  /\ ~crashed
  /\ clock < MaxClock
  /\ clock' = clock + 1
  /\ UNCHANGED <<cacheDuration, dataMap, lockMap, lockMapLock, mutexes, crashed,
                 locals, history>>

Step(c) ==
  \/ LockMapLock(c)
  \/ GetKeyLockFromMap(c)
  \/ KeyLockLock(c)
  \/ Miss(c)
  \/ Hit(c)
  \/ LoaderReturn(c)
  \/ LoaderPanic(c)
  \/ MapWriteEnd(c)

Next ==
  \/ \E c \in Calls : Get(c)
  \/ \E c \in Calls : Put(c)
  \/ \E c \in Calls : Step(c)
  \/ Fatal
  \/ Tick

Spec == Init /\ [][Next]_vars

\* the same under fair scheduling: a call that can take its next step does
\* so in the end (a waiting Lock() is granted, a running loader returns or
\* panics)
FairSpec == Spec /\ \A c \in Calls : WF_vars(Step(c))

\* the same cache with loaders that may call Get and Put on it
NextReentrant ==
  \/ \E c \in Calls : Get(c)
  \/ \E c \in Calls : Put(c)
  \/ \E c \in Calls : LoaderGet(c)
  \/ \E c \in Calls : LoaderPut(c)
  \/ \E c \in Calls : Step(c)
  \/ Fatal
  \/ Tick

SpecReentrant == Init /\ [][NextReentrant]_vars

FairSpecReentrant == SpecReentrant /\ \A c \in Calls : WF_vars(Step(c))

\* ------------------------------------------------------------ vocabulary
Concurrent(c1, c2) == c1 \in activeAtStart[c2] \/ c2 \in activeAtStart[c1]
Started(c) == pc[c] # "idle"
Finished(c) == pc[c] \in {"done", "panicked"}
Loaded(c) == loadIdx[c] > 0
InCriticalSection(c) == pc[c] \in {"reading", "loading", "writing"}
HasEntry(k) == k \in DOMAIN dataMap
\* the call's map read ends with this step
Checks(c) == pc[c] = "reading" /\ pc'[c] # "reading"
\* dataMap restricted to key k
EntryOf(m, k) == [x \in DOMAIN m \cap {k} |-> m[x]]

\* two Gets on one key that ran concurrently, both started while the key was
\* absent or expired, with no other call on that key overlapping them
ColdPair(c1, c2) ==
  /\ c1 # c2
  /\ Started(c1) /\ Started(c2)
  /\ op[c1] = "Get" /\ op[c2] = "Get"
  /\ key[c1] = key[c2]
  /\ Concurrent(c1, c2)
  /\ coldAtStart[c1] /\ coldAtStart[c2]
  /\ \A c3 \in Calls \ {c1, c2} :
       Started(c3) /\ key[c3] = key[c1] => ~Concurrent(c3, c1) /\ ~Concurrent(c3, c2)

OneLoadServedBoth(c1, c2) ==
  /\ Loaded(c1) # Loaded(c2)
  /\ LET l == IF Loaded(c1) THEN c1 ELSE c2 IN
       /\ ret[c1] = loadingFunc(key[l], loadIdx[l])
       /\ ret[c2] = loadingFunc(key[l], loadIdx[l])

C2_OneLoaderInFlight ==
  \A k \in Keys : Cardinality({c \in Calls : pc[c] = "loading" /\ key[c] = k}) <= 1

C2_Witness ==
  \E c1, c2 \in Calls :
    /\ key[c1] = key[c2]
    /\ pc[c1] = "loading"
    /\ op[c2] = "Get" /\ pc[c2] = "keyLock"
    /\ coldAtStart[c2]

\* C3: when the loader panics in a Get, the panic reaches the caller (Get
\* returns nothing), the key's mutex is released, the key's entry is what it
\* was while the loader ran and no entry is written, so the key is still
\* absent or expired; the next Get to check the key calls the loader again.
C3_PanicLeavesStore ==
  /\ [][\A c \in Calls :
          /\ pc[c] = "loading" =>
               EntryOf(dataMap', key[c]) = EntryOf(dataMap, key[c])
          /\ pc[c] = "loading" /\ pc'[c] = "panicked" =>
               /\ dataMap' = dataMap
               /\ mutexes'[keyLock[c]] = NoCall
               /\ ret'[c] = NoValue
               /\ MustLoad(dataMap', key[c], clock')]_vars
  /\ [][\A c \in Calls :
          /\ Checks(c)
          /\ lastOn[key[c]] # NoCall
          /\ pc[lastOn[key[c]]] = "panicked"
          => pc'[c] = "loading" /\ loadIdx'[c] = loadIdx[lastOn[key[c]]] + 1]_vars

C3_Witness ==
  \E c1, c2 \in Calls :
    /\ pc[c1] = "panicked" /\ HasEntry(key[c1]) /\ ret[c1] = NoValue
    /\ key[c2] = key[c1] /\ pc[c2] = "done" /\ loadIdx[c2] = loadIdx[c1] + 1
    /\ ret[c2] = loadingFunc(key[c2], loadIdx[c2])

\* C4 (as stated): a Get whose check finds an entry with now >= Expiration,
\* now = Expiration included, does not return the stored value: it calls the
\* loader.
C4_ExpiredAtOrAfter ==
  [][\A c \in Calls :
       /\ Checks(c)
       /\ HasEntry(key[c])
       /\ clock >= dataMap[key[c]].Expiration
       => pc'[c] = "loading"]_vars

\* C5: an entry that a Get loaded and built at clock t is returned, without
\* a call of the loader, by every Get that checks it at a clock < t + ttl,
\* and every Get that checks it at a clock > t + ttl calls the loader again.
C5_TTL ==
  [][\A c1, c2 \in Calls :
       /\ Checks(c2)
       /\ op[c1] = "Get" /\ pc[c1] = "done" /\ Loaded(c1)
       /\ key[c1] = key[c2]
       /\ lastOn[key[c2]] = c1
       => /\ clock < stampedAt[c1] + cacheDuration =>
               /\ pc'[c2] = "done"
               /\ ret'[c2] = ret[c1]
               /\ loadCount' = loadCount
          /\ clock > stampedAt[c1] + cacheDuration =>
               /\ pc'[c2] = "loading"
               /\ loadCount'[key[c2]] = loadCount[key[c2]] + 1]_vars

\* a Get that checked the entry after t + ttl is calling the loader again
C5_Witness ==
  \E c1, c2 \in Calls :
    /\ op[c1] = "Get" /\ op[c2] = "Get"
    /\ key[c1] = key[c2]
    /\ pc[c1] = "done" /\ pc[c2] = "loading"
    /\ loadIdx[c1] = 1 /\ loadIdx[c2] = 2
    /\ cacheDuration > 0
    /\ clock > stampedAt[c1] + cacheDuration

\* C6 (as stated): with ttl = 0 every Get that checks a key calls the loader,
\* whatever the clock reads: an entry never serves a later Get.
C6_ZeroTTLAlwaysLoads ==
  [][cacheDuration = 0 => \A c \in Calls : Checks(c) => pc'[c] = "loading"]_vars

C8_PutReplaces ==
  [][\A p \in Calls :
       /\ op'[p] = "Put" => pc'[p] # "loading" /\ loadIdx'[p] = 0
       /\ op[p] = "Put" /\ pc[p] = "writing" /\ pc'[p] = "done" =>
            /\ HasEntry(key[p])'
            /\ dataMap'[key[p]] =
                 [Value |-> value[p], Expiration |-> stampedAt[p] + cacheDuration]
            /\ \A k \in Keys \ {key[p]} : EntryOf(dataMap', k) = EntryOf(dataMap, k)
            /\ loadCount' = loadCount]_vars

\* a Put has replaced the expired entry a Get had loaded
C8_Witness ==
  \E c, p \in Calls :
    /\ op[c] = "Get" /\ pc[c] = "done" /\ Loaded(c)
    /\ op[p] = "Put" /\ pc[p] = "done"
    /\ key[c] = key[p]
    /\ newExp[c] < stampedAt[p]
    /\ dataMap[key[p]] = [Value |-> value[p], Expiration |-> stampedAt[p] + cacheDuration]

\* C9: at most one call is between locking and unlocking the mutex of a key,
\* and it is the one holding that mutex: a Get never reads the key's entry
\* while a Put is writing it.
C9_KeySerialized ==
  \A k \in Keys :
    /\ Cardinality({c \in Calls : InCriticalSection(c) /\ key[c] = k}) <= 1
    /\ \A c \in Calls : InCriticalSection(c) /\ key[c] = k =>
         /\ k \in DOMAIN lockMap
         /\ keyLock[c] = lockMap[k]
         /\ mutexes[lockMap[k]] = c

C9_Witness ==
  \E p, g \in Calls :
    /\ op[p] = "Put" /\ op[g] = "Get"
    /\ key[p] = key[g]
    /\ pc[p] = "writing" /\ pc[g] = "keyLock"
    /\ p \in activeAtStart[g]

\* C10: a call that cannot take its next step is waiting either for
\* lockMapLock or for the mutex of its own key, held by a call on that same
\* key; a loader running for another key (for however long) never stops it.
C10_OnlyOwnKeyBlocks ==
  \A c \in Calls :
    ~crashed /\ Active(c) /\ ~ENABLED Step(c) =>
      \/ pc[c] = "lockMapLock" /\ lockMapLock # NoCall /\ ENABLED Step(lockMapLock)
      \/ /\ pc[c] = "keyLock"
         /\ \E d \in Calls : /\ mutexes[keyLock[c]] = d
                             /\ InCriticalSection(d)
                             /\ key[d] = key[c]

\* a call on another key ran to completion while a loader was running
C10_Witness ==
  \E c1, c2 \in Calls :
    /\ pc[c1] = "loading"
    /\ key[c2] # key[c1]
    /\ c1 \in activeAtStart[c2]
    /\ pc[c2] = "done"

\* C11: the shared dataMap is never accessed by two calls at the same time
\* with one of them writing it, whatever their keys.
C11_NoConcurrentMapAccess ==
  \A c1, c2 \in Calls :
    c1 # c2 /\ pc[c1] = "writing" => pc[c2] \notin {"reading", "writing"}

\* C12: under fair scheduling, with loaders that return or panic and never
\* call the cache, every call that started returns in the end.
C12_EveryCallCompletes == \A c \in Calls : Started(c) ~> Finished(c)

\* (what does hold under fair scheduling: a call that started returns unless
\* the runtime aborts the process on a conflicting access of dataMap)
CompletesUnlessAborted == \A c \in Calls : Started(c) ~> (Finished(c) \/ crashed)

\* C13: for as long as the loader that call c started for key k has not
\* returned, c holds k's mutex, no other call on k is past keyLock.Lock(),
\* and no call on k returns.
C13_HungLoaderBlocksKey ==
  [][\A c \in Calls :
       pc[c] = "loading" /\ pc'[c] = "loading" =>
         /\ mutexes'[keyLock[c]] = c
         /\ \A d \in Calls \ {c} :
              Started(d)' /\ key'[d] = key[c] =>
                /\ ~InCriticalSection(d)'
                /\ Finished(d)' => Finished(d)]_vars

\* a Put on the key started while the loader was running and is still
\* waiting for the key's mutex after the clock has run to its bound
C13_Witness ==
  \E c, d \in Calls :
    /\ pc[c] = "loading"
    /\ op[d] = "Put" /\ key[d] = key[c]
    /\ c \in activeAtStart[d]
    /\ pc[d] = "keyLock"
    /\ clock = MaxClock
    /\ ~crashed

\* C14: a Get whose check finds an entry with the clock before its
\* Expiration returns without calling the loader, and a Get that returns
\* without calling the loader returns the Value of the entry and leaves
\* dataMap (Value and Expiration of every entry) as it was.
C14_HitChangesNothing ==
  [][\A c \in Calls :
       /\ Checks(c) /\ HasEntry(key[c]) /\ clock < dataMap[key[c]].Expiration =>
            pc'[c] = "done" /\ loadCount' = loadCount
       /\ Checks(c) /\ pc'[c] = "done" =>
            /\ HasEntry(key[c])
            /\ ret'[c] = dataMap[key[c]].Value
            /\ dataMap' = dataMap
            /\ loadCount' = loadCount]_vars

\* a Get returned an entry's Value later than the entry was written, and
\* the entry still has the Expiration it was written with
C14_Witness ==
  \E w, g \in Calls :
    /\ w # g /\ key[w] = key[g]
    /\ op[g] = "Get" /\ pc[g] = "done" /\ ~Loaded(g)
    /\ pc[w] = "done"
    /\ ret[g] = value[w]
    /\ clock > stampedAt[w]
    /\ dataMap[key[g]] = [Value |-> value[w], Expiration |-> stampedAt[w] + cacheDuration]

\* past getKeyLockFromMap: the call has been given its key's mutex
HasKeyLock(c) == pc[c] \notin {"idle", "lockMapLock", "lockMap"}

\* C15: lockMapLock is held only inside getKeyLockFromMap: never by a call
\* that waits for a key's mutex, holds one, or is inside the loader.
C15_GuardOnlyInLookup ==
  \A c \in Calls :
    (\/ pc[c] \in {"keyLock", "reading", "loading", "writing"}
     \/ \E l \in 1..Len(mutexes) : mutexes[l] = c)
    => lockMapLock # c

\* one call is inside getKeyLockFromMap, lockMapLock held, while another is
\* inside the loader
C15_Witness ==
  \E c, d \in Calls :
    /\ pc[c] = "loading"
    /\ pc[d] = "lockMap" /\ lockMapLock = d

\* C16: there is exactly one mutex per key in lockMap, every call is given
\* the mutex lockMap holds for its key, and an entry of lockMap is never
\* removed or replaced.
C16_OneLockPerKey ==
  /\ [](/\ Len(mutexes) = Cardinality(DOMAIN lockMap)
        /\ \A k1, k2 \in DOMAIN lockMap : lockMap[k1] = lockMap[k2] => k1 = k2
        /\ \A c \in Calls :
             HasKeyLock(c) => key[c] \in DOMAIN lockMap /\ keyLock[c] = lockMap[key[c]]
        /\ \A c, d \in Calls :
             HasKeyLock(c) /\ HasKeyLock(d) /\ key[c] = key[d] => keyLock[c] = keyLock[d])
  /\ [][\A k \in DOMAIN lockMap :
          k \in DOMAIN lockMap' /\ lockMap'[k] = lockMap[k]]_vars

\* two calls that ran concurrently on one key have both been given its
\* mutex, the only one there is, and neither has locked it yet
C16_Witness ==
  \E c, d \in Calls :
    /\ c # d /\ key[c] = key[d]
    /\ c \in activeAtStart[d]
    /\ pc[c] = "keyLock" /\ pc[d] = "keyLock"
    /\ keyLock[c] = keyLock[d]
    /\ Len(mutexes) = 1

\* C17: a call that reads or writes lockMap holds lockMapLock, a call that
\* reads or writes dataMap holds the mutex of its key, and the entry of a
\* key in dataMap changes only in a step of the holder of that key's mutex.
C17_LockDiscipline ==
  /\ [](\A c \in Calls :
          /\ pc[c] = "lockMap" => lockMapLock = c
          /\ InMap(c) => mutexes[lockMap[key[c]]] = c)
  /\ [][/\ lockMap' # lockMap =>
            \E c \in Calls : lockMapLock = c /\ pc[c] = "lockMap" /\ pc'[c] = "keyLock"
        /\ \A k \in Keys :
             EntryOf(dataMap', k) # EntryOf(dataMap, k) =>
               \E c \in Calls : /\ key[c] = k
                                 /\ mutexes[lockMap[k]] = c
                                 /\ pc[c] = "writing" /\ pc'[c] = "done"]_vars

\* one call writes dataMap holding its key's mutex while another is inside
\* getKeyLockFromMap holding lockMapLock
C17_Witness ==
  \E c, d \in Calls :
    /\ pc[c] = "writing" /\ mutexes[keyLock[c]] = c
    /\ pc[d] = "lockMap" /\ lockMapLock = d
    /\ keyLock[d] = NoLock

\* C18: a value a Get returned is a result of the loader called with the
\* Get's key, or the value of a Put on that key that started before the Get
\* returned.
C18_Provenance ==
  \A g \in Calls :
    op[g] = "Get" /\ pc[g] = "done" =>
      \/ \E n \in 1..loadCount[key[g]] : ret[g] = loadingFunc(key[g], n)
      \/ \E p \in Calls : /\ op[p] = "Put" /\ Started(p)
                            /\ key[p] = key[g]
                            /\ ret[g] = value[p]
                            /\ (p < g \/ g \in activeAtStart[p])

\* a Get returned the value of a Put on its key that started after it
C18_Witness ==
  \E g, p \in Calls :
    /\ op[g] = "Get" /\ op[p] = "Put"
    /\ key[g] = key[p]
    /\ g \in activeAtStart[p]
    /\ pc[g] = "done" /\ ret[g] = value[p]

\* C19: the Expiration of the entry a Get stores is the clock at the step
\* in which the loader has returned plus cacheDuration, that of a Put the
\* clock at its storing statement plus cacheDuration, and this is the
\* Expiration the entry has in dataMap.
C19_StampedAtWrite ==
  [][\A c \in Calls :
       /\ pc[c] \in {"loading", "keyLock"} /\ pc'[c] = "writing" =>
            newExp'[c] - clock = cacheDuration
       /\ pc[c] = "writing" /\ pc'[c] = "done" =>
            /\ dataMap'[key[c]].Value = value[c]
            /\ dataMap'[key[c]].Expiration = stampedAt[c] + cacheDuration]_vars

\* a Get that was already running when another call started has stamped its
\* entry later than that call stamped its own, with the whole of
\* cacheDuration
C19_Witness ==
  \E c, d \in Calls :
    /\ op[c] = "Get" /\ Loaded(c) /\ pc[c] = "done"
    /\ c \in activeAtStart[d]
    /\ 0 <= stampedAt[d] /\ stampedAt[d] < stampedAt[c]
    /\ cacheDuration = MaxTTL
    /\ dataMap[key[c]].Expiration = stampedAt[c] + MaxTTL

\* C20: a call d made by the loader that call c started: on c's own key, d
\* never gets past keyLock.Lock() and c stays inside the loader (once d waits
\* for the mutex, which c holds, neither can take a step); on another key,
\* c does not hold lockMapLock and d, whenever it cannot take its step,
\* waits for some other call, not for c.
C20_NotReentrant ==
  \A c, d \in Calls :
    caller[d] = c =>
      /\ key[d] = key[c] =>
           /\ pc[d] \in {"lockMapLock", "lockMap", "keyLock"}
           /\ pc[c] = "loading"
           /\ pc[d] = "keyLock" =>
                /\ mutexes[keyLock[d]] = c
                /\ ~ENABLED Step(d)
                /\ ~ENABLED Step(c)
      /\ key[d] # key[c] =>
           /\ lockMapLock # c
           /\ ~crashed /\ Active(d) /\ ~ENABLED Step(d) =>
                \/ /\ pc[d] = "lockMapLock"
                   /\ lockMapLock \notin {NoCall, c}
                   /\ ENABLED Step(lockMapLock)
                \/ /\ pc[d] = "keyLock"
                   /\ \E e \in Calls \ {c} : mutexes[keyLock[d]] = e /\ key[e] = key[d]
                \/ /\ pc[d] = "loading"
                   /\ \E e \in Calls : caller[e] = d /\ Active(e)

\* the loader of a Get has called Put on the Get's own key; the Put waits
\* for the mutex the Get holds, and the clock has run to its bound
C20_Witness ==
  \E c, d \in Calls :
    /\ caller[d] = c /\ key[d] = key[c]
    /\ op[d] = "Put"
    /\ pc[c] = "loading" /\ pc[d] = "keyLock"
    /\ mutexes[keyLock[d]] = c
    /\ clock = MaxClock
    /\ ~crashed

\* (under fair scheduling, a call made by a loader on another key returns,
\* unless its own loader calls the cache again or the runtime aborts)
InnerCallReturns ==
  \A c, d \in Calls :
    (caller[d] = c /\ key[d] # key[c]) ~>
      (Finished(d) \/ crashed \/ \E e \in Calls : caller[e] = d)

\* (the loader of a Get has called Get on another key, and both returned)
InnerCallReturned ==
  \E c, d \in Calls :
    /\ caller[d] = c /\ key[d] # key[c]
    /\ op[d] = "Get" /\ pc[d] = "done" /\ pc[c] = "done"

====
